---- MODULE Spec2Model ----
(***************************************************************************)
(* Model of kmp_parallel.py: create_kmp_table, kmp_search and the pool     *)
(* dispatch of main().  Strings are sequences of one-character strings;    *)
(* Python's 0-based positions are kept in the state and translated to      *)
(* TLA+'s 1-based sequences only by At.                                    *)
(***************************************************************************)
EXTENDS Integers, Sequences, FiniteSets, TLC

VARIABLES genome, sequences, poolsize, pcMain, results, by, lock, job, output

vars == <<genome, sequences, poolsize, pcMain, results, by, lock, job, output>>

(* ---------------------------- bounds ----------------------------------- *)
\* longest genome / pattern of a run that dispatches several patterns
MaxGenome == 2
MaxPattern == 1
\* longest pattern list of such a run
MaxPatterns == 2
\* longest genome / pattern of a run that dispatches a single pattern
MaxGenomeOne == 5
MaxPatternOne == 3
\* largest number of pool processes (Pool() takes the host's CPU count)
MaxPool == 2

Chars == {"A", "B"}

Strings(n) == UNION {[1..l -> Chars] : l \in 0..n}

Lists(S, n) == UNION {[1..l -> S] : l \in 1..n}

\* the vectors of test_kmp.py
TestGenome == <<"A","B","A","B","D","A","B","A","C","D","A","B","A","B","C","A","B","A","B">>
TestPattern == <<"A","B","A","B","C","A","B","A","B">>

\* the genome "AAAA" / pattern "AA" pair
OverlapGenome == <<"A","A","A","A">>
OverlapPattern == <<"A","A">>

\* a pattern whose table needs a fallback to a non-zero length ("AABAAA"),
\* in a genome that holds it once ("AABAABAAA")
BorderGenome == <<"A","A","B","A","A","B","A","A","A">>
BorderPattern == <<"A","A","B","A","A","A">>

\* (genome, pattern list) pairs main() is run on
Inputs ==
    (Strings(MaxGenome) \X Lists(Strings(MaxPattern), MaxPatterns))
    \cup (Strings(MaxGenomeOne) \X Lists(Strings(MaxPatternOne), 1))
    \cup {<<TestGenome, <<TestPattern>> >>,
          <<OverlapGenome, <<OverlapPattern>> >>,
          <<BorderGenome, <<BorderPattern>> >>}

(* ---------------------------- helpers ---------------------------------- *)
\* s[k] of the source, k 0-based
At(s, k) == s[k + 1]

\* np.zeros(len(pattern), dtype=int)
Zeros(m) == [x \in 1..m |-> 0]

\* the job tuple waiting in the pool's task queue
QueuedJob == [pc |-> "queued", length |-> 0, ti |-> 0, kmp_table |-> <<>>, i |-> 0, j |-> 0]

Running == {k \in DOMAIN job : job[k].pc \notin {"queued", "done", "failed"}}

Finished == {k \in DOMAIN job : job[k].pc \in {"done", "failed"}}

(* ------------------------ create_kmp_table ----------------------------- *)
\* variant: the fallback restarts from the empty prefix
TableFallbackZero(kmp_table, length) == 0

\* length = kmp_table[length - 1]
TableFallback(kmp_table, length) == At(kmp_table, length - 1)

\* one iteration of the while loop of create_kmp_table; s.ti is its i
TableIter(pattern, s) ==
    IF At(pattern, s.ti) = At(pattern, s.length)
    THEN [s EXCEPT !.length = s.length + 1,
                   !.kmp_table = [@ EXCEPT ![s.ti + 1] = s.length + 1],
                   !.ti = s.ti + 1]
    ELSE IF s.length # 0
         THEN [s EXCEPT !.length = TableFallback(s.kmp_table, s.length)]
         ELSE [s EXCEPT !.kmp_table = [@ EXCEPT ![s.ti + 1] = 0],
                        !.ti = s.ti + 1]

(* --------------------------- kmp_search -------------------------------- *)
\* variant: the position after the occurrence is recorded
MatchPositionEnd(i, j) == i

\* the position kmp_search records for a match
MatchPosition(i, j) == i - j

\* variant: the scan restarts the pattern from its first character
FallbackZero(kmp_table, j) == 0

\* where the scan resumes after a match or a mismatch with j # 0
Fallback(kmp_table, j) == At(kmp_table, j - 1)

\* variant: the mismatch test reads genome[i] without testing i < n first,
\* so that an i that has reached the end of the genome raises
ScanIterNoGuard(pattern, s) ==
    LET hit == At(pattern, s.j) = At(genome, s.i)
        i1 == IF hit THEN s.i + 1 ELSE s.i
        j1 == IF hit THEN s.j + 1 ELSE s.j
    IN  IF j1 = Len(pattern)
        THEN [s EXCEPT !.i = i1, !.j = j1, !.pc = "acquire"]
        ELSE IF ~(i1 < Len(genome))
             THEN [s EXCEPT !.i = i1, !.j = j1, !.pc = "failed"]
             ELSE IF At(pattern, j1) # At(genome, i1)
                  THEN IF j1 # 0
                       THEN [s EXCEPT !.i = i1, !.j = Fallback(s.kmp_table, j1)]
                       ELSE [s EXCEPT !.i = i1 + 1, !.j = j1]
                  ELSE [s EXCEPT !.i = i1, !.j = j1]

\* variant: a mismatch at j = 0 does not advance i
ScanIterNoAdvance(pattern, s) ==
    LET hit == At(pattern, s.j) = At(genome, s.i)
        i1 == IF hit THEN s.i + 1 ELSE s.i
        j1 == IF hit THEN s.j + 1 ELSE s.j
    IN  IF j1 = Len(pattern)
        THEN [s EXCEPT !.i = i1, !.j = j1, !.pc = "acquire"]
        ELSE IF i1 < Len(genome) /\ At(pattern, j1) # At(genome, i1)
             THEN IF j1 # 0
                  THEN [s EXCEPT !.i = i1, !.j = Fallback(s.kmp_table, j1)]
                  ELSE [s EXCEPT !.i = i1, !.j = j1]
             ELSE [s EXCEPT !.i = i1, !.j = j1]

\* one iteration of the while loop of kmp_search up to the `with lock`
ScanIter(pattern, s) ==
    LET hit == At(pattern, s.j) = At(genome, s.i)
        i1 == IF hit THEN s.i + 1 ELSE s.i
        j1 == IF hit THEN s.j + 1 ELSE s.j
    IN  IF j1 = Len(pattern)
        THEN [s EXCEPT !.i = i1, !.j = j1, !.pc = "acquire"]
        ELSE IF i1 < Len(genome) /\ At(pattern, j1) # At(genome, i1)
             THEN IF j1 # 0
                  THEN [s EXCEPT !.i = i1, !.j = Fallback(s.kmp_table, j1)]
                  ELSE [s EXCEPT !.i = i1 + 1, !.j = j1]
             ELSE [s EXCEPT !.i = i1, !.j = j1]

(* ----------------------------- state ----------------------------------- *)
Init ==
    /\ \E inp \in Inputs : genome = inp[1] /\ sequences = inp[2]
    /\ poolsize \in 1..MaxPool
    /\ pcMain = "setup"
    /\ results = <<>>
    /\ by = <<>>
    /\ lock = 0
    /\ job = <<>>
    /\ output = <<>>

\* main: manager.list(), manager.Lock(), the jobs list, Pool() and pool.map
MainSetup ==
    /\ pcMain = "setup"
    /\ pcMain' = "map"
    /\ results' = <<>>
    /\ by' = <<>>
    /\ lock' = 0
    /\ job' = [k \in 1..Len(sequences) |-> QueuedJob]
    /\ UNCHANGED <<genome, sequences, poolsize, output>>

\* variant: create_kmp_table starts its loop at i = 0
JobStartFromZero(k) ==
    /\ pcMain = "map"
    /\ job[k].pc = "queued"
    /\ \A h \in 1..(k - 1) : job[h].pc # "queued"
    /\ Cardinality(Running) < poolsize
    /\ job' = [job EXCEPT ![k] = [pc |-> "table", length |-> 0, ti |-> 0,
                                  kmp_table |-> Zeros(Len(sequences[k])),
                                  i |-> 0, j |-> 0]]
    /\ UNCHANGED <<genome, sequences, poolsize, pcMain, results, by, lock, output>>

\* a free pool process takes the next job of the queue and enters kmp_search
\* up to the first loop test of create_kmp_table.  pool.map hands the jobs out
\* in chunks of ceil(len(jobs) / (4 * processes)) jobs, which is one job per
\* chunk for every list of at most 4 * poolsize patterns.
JobStart(k) ==
    /\ pcMain = "map"
    /\ job[k].pc = "queued"
    /\ \A h \in 1..(k - 1) : job[h].pc # "queued"
    /\ Cardinality(Running) < poolsize
    /\ job' = [job EXCEPT ![k] = [pc |-> "table", length |-> 0, ti |-> 1,
                                  kmp_table |-> Zeros(Len(sequences[k])),
                                  i |-> 0, j |-> 0]]
    /\ UNCHANGED <<genome, sequences, poolsize, pcMain, results, by, lock, output>>

TableStep(k) ==
    /\ job[k].pc = "table"
    /\ job[k].ti < Len(sequences[k])
    /\ job' = [job EXCEPT ![k] = TableIter(sequences[k], job[k])]
    /\ UNCHANGED <<genome, sequences, poolsize, pcMain, results, by, lock, output>>

\* create_kmp_table returns; kmp_search sets i = 0, j = 0
TableReturn(k) ==
    /\ job[k].pc = "table"
    /\ ~(job[k].ti < Len(sequences[k]))
    /\ job' = [job EXCEPT ![k].pc = "scan", ![k].i = 0, ![k].j = 0]
    /\ UNCHANGED <<genome, sequences, poolsize, pcMain, results, by, lock, output>>

ScanStep(k) ==
    /\ job[k].pc = "scan"
    /\ job[k].i < Len(genome)
    /\ job[k].j < Len(sequences[k])
    /\ job' = [job EXCEPT ![k] = ScanIter(sequences[k], job[k])]
    /\ UNCHANGED <<genome, sequences, poolsize, pcMain, results, by, lock, output>>

\* variant: j == m is tested before pattern[j] is read, so that j at the end
\* of the pattern counts as a match
ScanRaiseAsMatch(k) ==
    /\ job[k].pc = "scan"
    /\ job[k].i < Len(genome)
    /\ ~(job[k].j < Len(sequences[k]))
    /\ job' = [job EXCEPT ![k].pc = "acquire"]
    /\ UNCHANGED <<genome, sequences, poolsize, pcMain, results, by, lock, output>>

\* pattern[j] with j out of range: IndexError leaves kmp_search
ScanRaise(k) ==
    /\ job[k].pc = "scan"
    /\ job[k].i < Len(genome)
    /\ ~(job[k].j < Len(sequences[k]))
    /\ job' = [job EXCEPT ![k].pc = "failed"]
    /\ UNCHANGED <<genome, sequences, poolsize, pcMain, results, by, lock, output>>

\* the while test fails: kmp_search returns
ScanReturn(k) ==
    /\ job[k].pc = "scan"
    /\ ~(job[k].i < Len(genome))
    /\ job' = [job EXCEPT ![k].pc = "done"]
    /\ UNCHANGED <<genome, sequences, poolsize, pcMain, results, by, lock, output>>

\* variant: the block is entered without waiting for the lock
AcquireNoWait(k) ==
    /\ job[k].pc = "acquire"
    /\ lock' = k
    /\ job' = [job EXCEPT ![k].pc = "append"]
    /\ UNCHANGED <<genome, sequences, poolsize, pcMain, results, by, output>>

\* `with lock:` entry
Acquire(k) ==
    /\ job[k].pc = "acquire"
    /\ lock = 0
    /\ lock' = k
    /\ job' = [job EXCEPT ![k].pc = "append"]
    /\ UNCHANGED <<genome, sequences, poolsize, pcMain, results, by, output>>

\* variant: the entry replaces the list's last entry instead of extending it
AppendResultOverwrite(k) ==
    /\ job[k].pc = "append"
    /\ results' = IF results = <<>>
                  THEN <<<<sequences[k], MatchPosition(job[k].i, job[k].j)>>>>
                  ELSE [results EXCEPT ![Len(results)] =
                            <<sequences[k], MatchPosition(job[k].i, job[k].j)>>]
    /\ by' = IF by = <<>> THEN <<k>> ELSE [by EXCEPT ![Len(by)] = k]
    /\ job' = [job EXCEPT ![k].pc = "release"]
    /\ UNCHANGED <<genome, sequences, poolsize, pcMain, lock, output>>

\* variant: the entry is inserted at the head of the list
AppendResultFront(k) ==
    /\ job[k].pc = "append"
    /\ results' = <<<<sequences[k], MatchPosition(job[k].i, job[k].j)>>>> \o results
    /\ by' = <<k>> \o by
    /\ job' = [job EXCEPT ![k].pc = "release"]
    /\ UNCHANGED <<genome, sequences, poolsize, pcMain, lock, output>>

\* variant: the entry carries the first pattern of the list, not the job's
AppendResultFirstPattern(k) ==
    /\ job[k].pc = "append"
    /\ results' = Append(results, <<sequences[1], MatchPosition(job[k].i, job[k].j)>>)
    /\ by' = Append(by, k)
    /\ job' = [job EXCEPT ![k].pc = "release"]
    /\ UNCHANGED <<genome, sequences, poolsize, pcMain, lock, output>>

\* results.append((pattern, i - j)); by remembers the appending job
AppendResult(k) ==
    /\ job[k].pc = "append"
    /\ results' = Append(results, <<sequences[k], MatchPosition(job[k].i, job[k].j)>>)
    /\ by' = Append(by, k)
    /\ job' = [job EXCEPT ![k].pc = "release"]
    /\ UNCHANGED <<genome, sequences, poolsize, pcMain, lock, output>>

\* variant: after a match the scan restarts the pattern with j = 0
ReleaseRestart(k) ==
    /\ job[k].pc = "release"
    /\ lock' = 0
    /\ job' = [job EXCEPT ![k].pc = "scan", ![k].j = 0]
    /\ UNCHANGED <<genome, sequences, poolsize, pcMain, results, by, output>>

\* variant: j is left at len(pattern) after a match
ReleaseKeepJ(k) ==
    /\ job[k].pc = "release"
    /\ lock' = 0
    /\ job' = [job EXCEPT ![k].pc = "scan"]
    /\ UNCHANGED <<genome, sequences, poolsize, pcMain, results, by, output>>

\* variant: the lock is not released on leaving the block
ReleaseKeepLock(k) ==
    /\ job[k].pc = "release"
    /\ lock' = lock
    /\ job' = [job EXCEPT ![k].pc = "scan",
                          ![k].j = Fallback(job[k].kmp_table, job[k].j)]
    /\ UNCHANGED <<genome, sequences, poolsize, pcMain, results, by, output>>

\* `with lock:` exit, then j = kmp_table[j - 1]
Release(k) ==
    /\ job[k].pc = "release"
    /\ lock' = 0
    /\ job' = [job EXCEPT ![k].pc = "scan",
                          ![k].j = Fallback(job[k].kmp_table, job[k].j)]
    /\ UNCHANGED <<genome, sequences, poolsize, pcMain, results, by, output>>

\* variant: the map returns as soon as one job has returned
MainMapReturnEarly ==
    /\ pcMain = "map"
    /\ \E k \in DOMAIN job : job[k].pc = "done"
    /\ \A k \in DOMAIN job : job[k].pc # "failed"
    /\ pcMain' = "convert"
    /\ UNCHANGED <<genome, sequences, poolsize, results, by, lock, job, output>>

\* pool.map returns once every job has ended and none has raised
MainMapReturn ==
    /\ pcMain = "map"
    /\ Finished = DOMAIN job
    /\ \A k \in DOMAIN job : job[k].pc = "done"
    /\ pcMain' = "convert"
    /\ UNCHANGED <<genome, sequences, poolsize, results, by, lock, job, output>>

\* pool.map re-raises a job's exception once every job has ended; nothing
\* in main catches it
MainMapRaise ==
    /\ pcMain = "map"
    /\ Finished = DOMAIN job
    /\ \E k \in DOMAIN job : job[k].pc = "failed"
    /\ pcMain' = "raised"
    /\ UNCHANGED <<genome, sequences, poolsize, results, by, lock, job, output>>

\* list(results) for the DataFrame
MainConvert ==
    /\ pcMain = "convert"
    /\ output' = results
    /\ pcMain' = "written"
    /\ UNCHANGED <<genome, sequences, poolsize, results, by, lock, job>>

Next ==
    \/ MainSetup
    \/ \E k \in DOMAIN job : JobStart(k)
    \/ \E k \in DOMAIN job : TableStep(k)
    \/ \E k \in DOMAIN job : TableReturn(k)
    \/ \E k \in DOMAIN job : ScanStep(k)
    \/ \E k \in DOMAIN job : ScanRaise(k)
    \/ \E k \in DOMAIN job : ScanReturn(k)
    \/ \E k \in DOMAIN job : Acquire(k)
    \/ \E k \in DOMAIN job : AppendResult(k)
    \/ \E k \in DOMAIN job : Release(k)
    \/ MainMapReturn
    \/ MainMapRaise
    \/ MainConvert

Spec == Init /\ [][Next]_vars

\* the steps of main's process
MainNext == MainSetup \/ MainMapReturn \/ MainMapRaise \/ MainConvert

\* the steps of the pool process that runs job k
JobNext(k) ==
    /\ k \in DOMAIN job
    /\ \/ JobStart(k) \/ TableStep(k) \/ TableReturn(k)
       \/ ScanStep(k) \/ ScanRaise(k) \/ ScanReturn(k)
       \/ Acquire(k) \/ AppendResult(k) \/ Release(k)

\* every process that can run is eventually scheduled by the host
FairSpec ==
    /\ Spec
    /\ WF_vars(MainNext)
    /\ \A k \in 1..MaxPatterns : WF_vars(JobNext(k))

(* ------------------- kmp_search as a sequential function --------------- *)
\* create_kmp_table run to its return
RECURSIVE RunTable(_, _)
RunTable(pattern, s) ==
    IF s.ti < Len(pattern) THEN RunTable(pattern, TableIter(pattern, s)) ELSE s

\* the while loop of kmp_search run by one caller alone, appending to res;
\* an IndexError ends the call with what was appended before it
RECURSIVE RunScan(_, _, _)
RunScan(pattern, s, res) ==
    IF ~(s.i < Len(genome)) THEN res
    ELSE IF ~(s.j < Len(pattern)) THEN res
    ELSE LET t == ScanIter(pattern, s)
         IN  IF t.pc = "acquire"
             THEN RunScan(pattern,
                          [t EXCEPT !.pc = "scan", !.j = Fallback(t.kmp_table, t.j)],
                          Append(res, <<pattern, MatchPosition(t.i, t.j)>>))
             ELSE RunScan(pattern, t, res)

\* kmp_search((genome, pattern, lock, res)) called on the list res
KmpSearch(pattern, res) ==
    RunScan(pattern,
            RunTable(pattern, [pc |-> "scan", length |-> 0, ti |-> 1,
                               kmp_table |-> Zeros(Len(pattern)), i |-> 0, j |-> 0]),
            res)

\* the patterns 1..k run one after another on one list
RECURSIVE Sequential(_)
Sequential(k) ==
    IF k = 0 THEN <<>> ELSE KmpSearch(sequences[k], Sequential(k - 1))

(* --------------------------- reference --------------------------------- *)
\* pattern occurs in the genome at 0-based start s
OccursAt(pattern, s) ==
    /\ s >= 0
    /\ s + Len(pattern) <= Len(genome)
    /\ SubSeq(genome, s + 1, s + Len(pattern)) = pattern

Starts(pattern) == {s \in 0..Len(genome) : OccursAt(pattern, s)}

Ends(pattern) == {s + Len(pattern) : s \in Starts(pattern)}

\* the list of (pattern, s) for the starts s >= from, in increasing s
RECURSIVE StartList(_, _)
StartList(pattern, from) ==
    IF from > Len(genome) THEN <<>>
    ELSE (IF OccursAt(pattern, from) THEN <<<<pattern, from>>>> ELSE <<>>)
         \o StartList(pattern, from + 1)

\* length of the longest proper prefix of pattern[0..x] that is also its suffix
LongestBorder(pattern, x) ==
    LET borders == {l \in 0..x : SubSeq(pattern, 1, l) = SubSeq(pattern, x + 2 - l, x + 1)}
    IN  CHOOSE l \in borders : \A o \in borders : o <= l

\* the entries of results appended by job k, in list order
RECURSIVE EntriesFrom(_, _)
EntriesFrom(k, x) ==
    IF x > Len(results) THEN <<>>
    ELSE (IF by[x] = k THEN <<results[x]>> ELSE <<>>) \o EntriesFrom(k, x + 1)

EntriesBy(k) == EntriesFrom(k, 1)

PositionsBy(k) == {results[x][2] : x \in {y \in 1..Len(results) : by[y] = k}}

\* number of entries of the list l equal to e
Count(l, e) == Cardinality({x \in 1..Len(l) : l[x] = e})

Range(l) == {l[x] : x \in 1..Len(l)}

SameMultiset(l1, l2) ==
    /\ Len(l1) = Len(l2)
    /\ \A e \in Range(l1) \cup Range(l2) : Count(l1, e) = Count(l2, e)

Returned(k) == k \in DOMAIN job /\ job[k].pc = "done"

(* ----------------------------- claims ---------------------------------- *)
\* C1 as stated: the positions a finished kmp_search has recorded for a
\* non-empty pattern P are exactly the indices i with genome[i-len(P):i] = P
\* (the position right after each occurrence).
C1_EndIndexRecorded ==
    \A k \in DOMAIN job :
        (Returned(k) /\ sequences[k] # <<>>) => PositionsBy(k) = Ends(sequences[k])

\* C1 amended: the positions a finished kmp_search has recorded for a
\* non-empty pattern P are exactly the values i - len(P) for the indices i
\* with genome[i-len(P):i] = P (the start of each occurrence), no other
\* position is recorded, and the test vector gives exactly position 10.
C1_StartIndexRecorded ==
    \A k \in DOMAIN job :
        (Returned(k) /\ sequences[k] # <<>>) =>
            /\ PositionsBy(k) = {e - Len(sequences[k]) : e \in Ends(sequences[k])}
            /\ (genome = TestGenome /\ sequences[k] = TestPattern) => PositionsBy(k) = {10}

C1_Witness ==
    /\ Returned(1)
    /\ genome = TestGenome
    /\ sequences = <<TestPattern>>
    /\ results = <<<<TestPattern, 10>>>>
    /\ Ends(TestPattern) = {19}

\* C2: kmp_search called alone on an initially empty list, with a non-empty
\* pattern, leaves the list equal to [(pattern, s)] for the starts s of the
\* occurrences, in increasing s; the same holds of each job's own entries.
C2_ResultsList ==
    /\ (Len(sequences) = 1 /\ Returned(1) /\ sequences[1] # <<>>) =>
            results = StartList(sequences[1], 0)
    /\ \A k \in DOMAIN job :
        (Returned(k) /\ sequences[k] # <<>>) => EntriesBy(k) = StartList(sequences[k], 0)

C2_Witness ==
    /\ Returned(1)
    /\ genome = OverlapGenome
    /\ sequences = <<OverlapPattern>>
    /\ results = <<<<OverlapPattern, 0>>, <<OverlapPattern, 1>>, <<OverlapPattern, 2>>>>

\* C3: once create_kmp_table has returned for a non-empty pattern, the table
\* has one entry per pattern index and entry x is the length of the longest
\* proper prefix of pattern[0..x] that is also a suffix of it.
C3_TableIsLps ==
    \A k \in DOMAIN job :
        (job[k].pc \notin {"queued", "table"} /\ sequences[k] # <<>>) =>
            /\ Len(job[k].kmp_table) = Len(sequences[k])
            /\ \A x \in 0..(Len(sequences[k]) - 1) :
                   At(job[k].kmp_table, x) = LongestBorder(sequences[k], x)

C3_Witness ==
    /\ 1 \in DOMAIN job
    /\ job[1].pc = "scan"
    /\ sequences = <<TestPattern>>
    /\ job[1].kmp_table = <<0, 0, 1, 2, 0, 1, 2, 3, 4>>

\* C4: once every job of the pool has ended, the shared list holds, as a
\* multiset, the entries that running the patterns one after another
\* through kmp_search on one list gives.
C4_SameAsSequential ==
    (pcMain \in {"convert", "written", "raised"}) =>
        SameMultiset(results, Sequential(Len(sequences)))

\* two jobs with matches have ended, and the first job's entries are not all
\* ahead of the second's
C4_Witness ==
    /\ pcMain = "convert"
    /\ Len(sequences) = 2
    /\ Len(results) >= 3
    /\ by[1] = 2
    /\ \E x \in 2..Len(results) : by[x] = 1

\* C5 as stated: an empty pattern is rejected: when the pattern list holds
\* an empty pattern no unit of work is scheduled, and a table builder given
\* an empty pattern fails instead of returning a table to the scan.
C5_EmptyPatternRejected ==
    /\ (\E h \in DOMAIN sequences : sequences[h] = <<>>) =>
            \A k \in DOMAIN job : job[k].pc = "queued"
    /\ \A k \in DOMAIN job :
            sequences[k] = <<>> => job[k].pc \notin {"scan", "done"}

\* C6 as stated: a unit of work that raises is not fatal to the dispatch:
\* the failure is not propagated to the caller, who still gets the
\* aggregate of the other units.
C6_FailureNotFatal ==
    (pcMain \notin {"setup", "map"} /\ \E k \in DOMAIN job : job[k].pc = "failed") =>
        pcMain \in {"convert", "written"}

\* C7: at most one job is executing results.append, and a job executes it
\* only while it holds the shared lock.
C7_AppendSerialized ==
    /\ Cardinality({k \in DOMAIN job : job[k].pc = "append"}) <= 1
    /\ \A k \in DOMAIN job : job[k].pc = "append" => lock = k

\* one job is inside the locked block while another waits for the lock
C7_Witness ==
    \E k, h \in DOMAIN job :
        /\ k # h
        /\ job[k].pc = "append"
        /\ job[h].pc = "acquire"
        /\ lock = k

\* C8: main reads the results list only after every job has ended, no
\* append happens once main has read it, and when no job fails every job
\* ends and main gets to reading the list.
C8_JoinBarrier ==
    /\ [](pcMain \in {"convert", "written"} => \A k \in DOMAIN job : job[k].pc = "done")
    /\ [][pcMain = "written" => (results' = results /\ output' = output)]_vars
    /\ []((pcMain = "written") => output = results)
    /\ ([](\A k \in DOMAIN job : job[k].pc # "failed")) => <>(pcMain = "written")

\* main has read a list to which two jobs have appended
C8_Witness ==
    /\ pcMain = "written"
    /\ Len(sequences) = 2
    /\ output = results
    /\ \E x, y \in 1..Len(results) : by[x] = 1 /\ by[y] = 2

\* C9 as stated: the entries of the results list that carry a given pattern
\* appear with strictly increasing positions.
C9_OrderedPerPattern ==
    \A x, y \in 1..Len(results) :
        (x < y /\ results[x][1] = results[y][1]) => results[x][2] < results[y][2]

\* C9 amended: the entries appended by one unit of work appear with
\* strictly increasing positions, so the entries that carry a given pattern
\* do whenever that pattern is listed once; no order holds between the
\* entries of different units.
C9_OrderedPerUnit ==
    /\ \A x, y \in 1..Len(results) :
            (x < y /\ by[x] = by[y]) => results[x][2] < results[y][2]
    /\ \A x, y \in 1..Len(results) :
            (/\ x < y
             /\ results[x][1] = results[y][1]
             /\ Cardinality({k \in DOMAIN sequences : sequences[k] = results[x][1]}) = 1)
            => results[x][2] < results[y][2]

\* a unit's two entries lie on both sides of another unit's entry
C9_Witness ==
    \E x, y, z \in 1..Len(results) :
        /\ x < y /\ y < z
        /\ by[x] = by[z]
        /\ by[y] # by[x]
        /\ results[x][2] < results[z][2]

\* C10 as stated: no two units of work append entries carrying the same
\* pattern.
C10_DisjointOwnership ==
    \A x, y \in 1..Len(results) : results[x][1] = results[y][1] => by[x] = by[y]

\* C10 amended: each unit appends only entries carrying its own pattern, so
\* two units append entries carrying the same pattern only when the list
\* names that pattern twice; for a list of pairwise distinct patterns each
\* pattern's entries come from exactly one unit.
C10_OwnPatternOnly ==
    /\ \A x \in 1..Len(results) : by[x] \in DOMAIN job /\ results[x][1] = sequences[by[x]]
    /\ (\A k, h \in DOMAIN sequences : sequences[k] = sequences[h] => k = h) =>
            \A x, y \in 1..Len(results) : results[x][1] = results[y][1] => by[x] = by[y]

\* two units given different patterns have both appended
C10_Witness ==
    /\ Len(sequences) = 2
    /\ sequences[1] # sequences[2]
    /\ \E x, y \in 1..Len(results) : by[x] = 1 /\ by[y] = 2

\* the genome is empty or shorter than job k's non-empty pattern
ShortGenome(k) ==
    /\ k \in DOMAIN job
    /\ sequences[k] # <<>>
    /\ Len(genome) < Len(sequences[k])

\* C11: for a non-empty pattern, kmp_search on an empty genome or on a
\* genome shorter than the pattern never raises, never reaches the append
\* and leaves no entry in the results list, and once started it returns.
C11_BoundaryInputs ==
    /\ [](\A k \in DOMAIN job : ShortGenome(k) =>
            /\ job[k].pc \in {"queued", "table", "scan", "done"}
            /\ EntriesBy(k) = <<>>)
    /\ \A k \in 1..MaxPatterns :
            (ShortGenome(k) /\ job[k].pc = "table") ~> Returned(k)

\* a scan of a non-empty genome shorter than its pattern has returned after
\* matching a prefix of the pattern, and main has read the empty list
C11_Witness ==
    /\ Returned(1)
    /\ ShortGenome(1)
    /\ genome # <<>>
    /\ job[1].j > 0
    /\ results = <<>>
    /\ pcMain = "written"

\* C12: the table create_kmp_table returns for a non-empty pattern has
\* table[0] = 0 and table[x] <= x at every index x.
C12_TableBounds ==
    \A k \in DOMAIN job :
        (job[k].pc \notin {"queued", "table"} /\ sequences[k] # <<>>) =>
            /\ At(job[k].kmp_table, 0) = 0
            /\ \A x \in 0..(Len(sequences[k]) - 1) :
                   At(job[k].kmp_table, x) >= 0 /\ At(job[k].kmp_table, x) <= x

C12_Witness ==
    /\ 1 \in DOMAIN job
    /\ job[1].pc \notin {"queued", "table"}
    /\ sequences = <<BorderPattern>>
    /\ job[1].kmp_table = <<0, 1, 0, 1, 2, 2>>

\* C13: the number of entries a returned kmp_search has appended for a
\* non-empty pattern is the number of positions at which the pattern occurs
\* in the genome, overlapping occurrences included, and the entries are
\* pairwise distinct; "AA" in "AAAA" gives three.
C13_OverlapsReported ==
    \A k \in DOMAIN job :
        (Returned(k) /\ sequences[k] # <<>>) =>
            /\ Len(EntriesBy(k)) = Cardinality(Starts(sequences[k]))
            /\ Cardinality(Range(EntriesBy(k))) = Len(EntriesBy(k))
            /\ (genome = OverlapGenome /\ sequences[k] = OverlapPattern) =>
                    Len(EntriesBy(k)) = 3

\* the three overlapping occurrences of "AA" in "AAAA" are in the output
C13_Witness ==
    /\ pcMain = "written"
    /\ genome = OverlapGenome
    /\ sequences = <<OverlapPattern>>
    /\ Len(output) = 3
    /\ \A x \in 1..2 : output[x + 1][2] - output[x][2] < Len(OverlapPattern)

\* the entries the patterns 1..k have in the genome, by the definition of an
\* occurrence alone; an empty pattern has none
RECURSIVE OccurrenceList(_)
OccurrenceList(k) ==
    IF k = 0 THEN <<>>
    ELSE OccurrenceList(k - 1)
         \o (IF sequences[k] = <<>> THEN <<>> ELSE StartList(sequences[k], 0))

RunEnded == pcMain \in {"convert", "written", "raised"}

\* C14: the multiset of entries a run of the dispatcher ends with is fixed
\* by (genome, patterns) alone, whatever the interleaving of the jobs: it is
\* the multiset of the patterns' occurrences, so two runs on the same inputs
\* end with the same multiset.
C14_Deterministic ==
    RunEnded => SameMultiset(results, OccurrenceList(Len(sequences)))

\* a run has ended whose list is not in the order of the pattern list
C14_Witness ==
    /\ pcMain = "written"
    /\ Len(sequences) = 2
    /\ \E x, y \in 1..Len(output) : x < y /\ by[x] = 2 /\ by[y] = 1
    /\ output # OccurrenceList(2)

\* C15: the list is empty when the jobs are handed to the pool, and every
\* step leaves it unchanged or extends it by exactly one entry at its end.
C15_AppendOnly ==
    /\ []((pcMain = "map" /\ \A k \in DOMAIN job : job[k].pc = "queued") => results = <<>>)
    /\ [][\/ results' = results
          \/ /\ Len(results') = Len(results) + 1
             /\ SubSeq(results', 1, Len(results)) = results]_vars

\* a job has just extended a list that already held another job's entry
C15_Witness ==
    \E k \in DOMAIN job :
        /\ job[k].pc = "release"
        /\ Len(results) >= 2
        /\ by[Len(results)] = k
        /\ by[1] # k

\* job k's step is a step of the scan loop (the part of an iteration before
\* the locked block, or a whole iteration without a match) that either
\* advances i or leaves i and strictly decreases j
ScanProgress(k) ==
    (/\ job[k].pc = "scan"
     /\ job'[k].pc \in {"scan", "acquire"}
     /\ job'[k] # job[k]) =>
        \/ job'[k].i = job[k].i + 1
        \/ /\ job'[k].i = job[k].i
           /\ job'[k].j < job[k].j
           /\ job'[k].j >= 0

\* the end of an iteration with a match: j = kmp_table[j - 1] < j
MatchProgress(k) ==
    (job[k].pc = "release" /\ job'[k].pc = "scan") =>
        /\ job'[k].i = job[k].i
        /\ job'[k].j < job[k].j
        /\ job'[k].j >= 0

\* an iteration of create_kmp_table advances its i or strictly decreases length
TableProgress(k) ==
    (/\ job[k].pc = "table"
     /\ job'[k].pc = "table"
     /\ job'[k] # job[k]) =>
        \/ job'[k].ti = job[k].ti + 1
        \/ /\ job'[k].ti = job[k].ti
           /\ job'[k].length < job[k].length
           /\ job'[k].length >= 0

\* C16: for a non-empty pattern every iteration of the scan loop advances i
\* or strictly decreases j with i unchanged, every iteration of the table
\* loop advances its i or strictly decreases length; the table loop ends
\* with i = len(pattern), the scan loop with i = len(genome), and a started
\* kmp_search returns.
C16_LoopsTerminate ==
    /\ [][\A k \in DOMAIN job : sequences[k] # <<>> =>
            (ScanProgress(k) /\ MatchProgress(k) /\ TableProgress(k))]_vars
    /\ [](\A k \in DOMAIN job : sequences[k] # <<>> =>
            /\ job[k].i <= Len(genome)
            /\ job[k].ti <= Len(sequences[k])
            /\ (job[k].pc \notin {"queued", "table"} => job[k].ti = Len(sequences[k]))
            /\ (job[k].pc = "done" => job[k].i = Len(genome)))
    /\ \A k \in 1..MaxPatterns :
            (k \in DOMAIN job /\ sequences[k] # <<>> /\ job[k].pc = "table")
                ~> Returned(k)

\* the run of "AABAAA" in "AABAABAAA", whose table loop and scan loop both
\* fall back to a non-zero length, has ended
C16_Witness ==
    /\ Returned(1)
    /\ genome = BorderGenome
    /\ sequences = <<BorderPattern>>
    /\ job[1].i = Len(BorderGenome)
    /\ job[1].ti = Len(BorderPattern)
    /\ results = <<<<BorderPattern, 3>>>>

InRange(x, len) == 0 <= x /\ x < len

\* every read of the iteration of the scan loop that starts in s is in range:
\* pattern[j] and genome[i] of the first test, pattern[j] and genome[i] of
\* the elif, kmp_table[j - 1] of the fallback
ScanReadsInRange(pattern, s) ==
    /\ InRange(s.j, Len(pattern))
    /\ InRange(s.i, Len(genome))
    /\ LET hit == At(pattern, s.j) = At(genome, s.i)
           i1 == IF hit THEN s.i + 1 ELSE s.i
           j1 == IF hit THEN s.j + 1 ELSE s.j
       IN  (j1 # Len(pattern) /\ i1 < Len(genome)) =>
               /\ InRange(j1, Len(pattern))
               /\ InRange(i1, Len(genome))
               /\ (At(pattern, j1) # At(genome, i1) /\ j1 # 0) =>
                      (1 <= j1 /\ j1 <= Len(pattern) /\ InRange(j1 - 1, Len(s.kmp_table)))

\* C17: for a non-empty pattern, at the top of every iteration of the scan
\* loop 0 <= j < len(pattern) and 0 <= i < len(genome), every read of
\* pattern, genome and kmp_table in the iteration is in range, j is
\* len(pattern) in the locked block (so kmp_table[j - 1] is the last entry)
\* and the scan never raises.
C17_IndexSafety ==
    \A k \in DOMAIN job : sequences[k] # <<>> =>
        /\ job[k].pc # "failed"
        /\ (job[k].pc = "scan" /\ job[k].i < Len(genome)) =>
                ScanReadsInRange(sequences[k], job[k])
        /\ job[k].pc \in {"acquire", "append", "release"} =>
                /\ job[k].j = Len(sequences[k])
                /\ InRange(job[k].j - 1, Len(job[k].kmp_table))
                /\ job[k].i - job[k].j >= 0

\* an iteration starts at the last character of the genome and of the
\* pattern, after an earlier match
C17_Witness ==
    \E k \in DOMAIN job :
        /\ job[k].pc = "scan"
        /\ Len(sequences[k]) >= 2
        /\ job[k].i = Len(genome) - 1
        /\ job[k].j = Len(sequences[k]) - 1
        /\ \E x \in 1..Len(results) : by[x] = k

InBlock(k) == job[k].pc \in {"append", "release"}

\* C18: the lock is held exactly by the job inside the locked block; a job
\* that has acquired it appends exactly once and releases it in its next
\* step; no queued or ended job holds it; and a job waiting for the lock
\* eventually acquires it.
C18_LockDiscipline ==
    /\ [](\A k \in DOMAIN job : (lock = k) <=> InBlock(k))
    /\ [](lock # 0 => lock \in DOMAIN job)
    /\ [](\A k \in DOMAIN job : job[k].pc \in {"queued", "done", "failed"} => lock # k)
    /\ [][\A k \in DOMAIN job :
            /\ (job[k].pc = "append" /\ job'[k] # job[k]) =>
                    /\ job'[k].pc = "release"
                    /\ lock' = k
                    /\ Len(results') = Len(results) + 1
            /\ (job[k].pc = "release" /\ job'[k] # job[k]) =>
                    /\ job'[k].pc = "scan"
                    /\ lock' = 0
                    /\ results' = results]_vars
    /\ \A k \in 1..MaxPatterns :
            (k \in DOMAIN job /\ job[k].pc = "acquire")
                ~> (k \in DOMAIN job /\ job[k].pc = "append")

\* a job waits for the lock while another, having appended, still holds it
C18_Witness ==
    \E k, h \in DOMAIN job :
        /\ k # h
        /\ job[k].pc = "acquire"
        /\ job[h].pc = "release"
        /\ lock = h
        /\ by[Len(by)] = h

\* C19: a job given an empty pattern never reaches the locked block and
\* never appends; with a non-empty genome it raises at its first comparison
\* (i = 0, j = 0), with an empty genome it returns like a job without
\* matches and the run ends as if the pattern were valid.
C19_EmptyPatternJob ==
    /\ \A k \in DOMAIN job : sequences[k] = <<>> =>
        /\ job[k].pc \in {"queued", "table", "scan", "done", "failed"}
        /\ EntriesBy(k) = <<>>
        /\ lock # k
        /\ job[k].kmp_table = <<>>
        /\ (job[k].pc = "failed" => (genome # <<>> /\ job[k].i = 0 /\ job[k].j = 0))
        /\ (job[k].pc = "done" => genome = <<>>)
    /\ genome = <<>> => (pcMain # "raised" /\ results = <<>>)

\* the job of an empty pattern has raised next to a job that has appended
C19_Witness ==
    \E k, h \in DOMAIN job :
        /\ sequences[k] = <<>>
        /\ job[k].pc = "failed"
        /\ sequences[h] # <<>>
        /\ \E x \in 1..Len(results) : by[x] = h

====
